---- MODULE Spec2Model ----
(***************************************************************************)
(* generate_viewer.py: bundle the conversation transcripts of messages/    *)
(* into viewer.html by injecting them, serialized as JSON, into            *)
(* viewer_template.html.                                                    *)
(*                                                                         *)
(* A text is a sequence of Unicode code points, a file's content is a      *)
(* sequence of bytes (0..255).  File names are texts.                      *)
(***************************************************************************)
EXTENDS Integers, Sequences, FiniteSets, TLC

VARIABLES
    os_name,        \* "posix" or "nt": the platform the script runs on
    messages_dir,   \* script_dir/messages: entry name -> [kind, readable, bytes]
    script_dir,     \* viewer_template.html, viewer.html -> [present, accessible, bytes]
    pc,             \* the statement main() executes next
    txt_files,      \* line 17
    idx,            \* the for loop's position in txt_files (line 23)
    message_data,   \* line 22: the dict, as the sequence of its items in insertion order
    viewer_html,    \* lines 35 and 42
    data_json,      \* line 39
    stdout,         \* what print() has emitted, one record for each call
    open_log        \* every open() call made so far, in order

vars == <<os_name, messages_dir, script_dir, pc, txt_files, idx, message_data,
          viewer_html, data_json, stdout, open_log>>

----------------------------------------------------------------------------
(* Bounds of the explored inputs.                                          *)

MaxFiles == 3       \* directory entries of messages/
MaxLen == 3         \* bytes of a drawn conversation file
MaxChunks == 3      \* pieces a drawn template is made of

----------------------------------------------------------------------------
(* Literals of the script.                                                 *)

\* 'window.IMESSAGE_DATA = ' (lines 43 and 44, up to the brace)
AssignPrefix ==
    <<119,105,110,100,111,119,46,73,77,69,83,83,65,71,69,95,68,65,84,65,32,61,32>>

\* 'window.IMESSAGE_DATA = {};' (line 43)
Marker == AssignPrefix \o <<123,125,59>>

\* 'orphaned.txt' (line 17)
OrphanedName == <<111,114,112,104,97,110,101,100,46,116,120,116>>

\* '*.txt' (line 17)
GlobPattern == <<42,46,116,120,116>>

TemplateFile == "viewer_template.html"
OutputFile == "viewer.html"

\* line 33
viewer_template_path == TemplateFile

\* The output written over the template.
OutputPathMutant == TemplateFile

\* line 49
output_path == OutputFile

----------------------------------------------------------------------------
(* Sequence helpers.                                                       *)

\* The concatenation of the sequences of ss (by halves: a text is hundreds long).
RECURSIVE Flatten(_)
Flatten(ss) ==
    IF Len(ss) = 0 THEN <<>>
    ELSE IF Len(ss) = 1 THEN ss[1]
    ELSE LET half == Len(ss) \div 2
         IN  Flatten(SubSeq(ss, 1, half)) \o Flatten(SubSeq(ss, half + 1, Len(ss)))

\* Whether sub occurs in s at position i (1-based).
OccursAt(s, sub, i) ==
    /\ i >= 1
    /\ i + Len(sub) - 1 <= Len(s)
    /\ SubSeq(s, i, i + Len(sub) - 1) = sub

Occurrences(s, sub) == {i \in 1..Len(s) : OccursAt(s, sub, i)}

CountOf(s, sub) == Cardinality(Occurrences(s, sub))

Min(S) == CHOOSE x \in S : \A y \in S : x <= y

\* All sequences over alphabet A of length at most n.
RECURSIVE SeqsUpTo(_, _)
SeqsUpTo(A, n) ==
    IF n = 0 THEN {<<>>}
    ELSE LET shorter == SeqsUpTo(A, n - 1)
         IN  shorter \cup {Append(s, a) : s \in {t \in shorter : Len(t) = n - 1}, a \in A}

\* All orderings of the finite set S.
RECURSIVE Orderings(_)
Orderings(S) ==
    IF S = {} THEN {<<>>}
    ELSE UNION {{<<x>> \o rest : rest \in Orderings(S \ {x})} : x \in S}

----------------------------------------------------------------------------
(* str.replace(old, new, 1) and str.replace(old, new).                     *)

RECURSIVE ReplaceAll(_, _, _)
ReplaceAll(s, old, new) ==
    IF Occurrences(s, old) = {} THEN s
    ELSE LET i == Min(Occurrences(s, old))
         IN  SubSeq(s, 1, i - 1) \o new
                 \o ReplaceAll(SubSeq(s, i + Len(old), Len(s)), old, new)

\* s.replace(old, new, 1): the leftmost occurrence only; s itself when there is none.
ReplaceFirst(s, old, new) ==
    IF Occurrences(s, old) = {} THEN s
    ELSE LET i == Min(Occurrences(s, old))
         IN  SubSeq(s, 1, i - 1) \o new \o SubSeq(s, i + Len(old), Len(s))

----------------------------------------------------------------------------
(* Text files: open(..., 'r', encoding='utf-8', errors=...) and            *)
(* open(..., 'w', encoding='utf-8').                                       *)

IsCont(b) == b >= 128 /\ b <= 191

\* Whether bs[i] exists and lies in lo..hi.
ByteIn(bs, i, lo, hi) == i <= Len(bs) /\ bs[i] >= lo /\ bs[i] <= hi

\* The inclusive range the byte after lead byte c must lie in.
SecondLo(c) == IF c = 224 THEN 160 ELSE IF c = 240 THEN 144 ELSE 128
SecondHi(c) == IF c = 237 THEN 159 ELSE IF c = 244 THEN 143 ELSE 191

\* The UTF-8 decoder: the code points of bs from position i on, with -1 standing
\* for each undecodable run of bytes (the place the error handler is called).
RECURSIVE DecodeFrom(_, _)
DecodeFrom(bs, i) ==
    IF i > Len(bs) THEN <<>>
    ELSE LET c == bs[i] IN
      IF c < 128 THEN <<c>> \o DecodeFrom(bs, i + 1)
      ELSE IF c >= 194 /\ c <= 223 THEN
        IF i + 1 > Len(bs) THEN <<-1>>
        ELSE IF IsCont(bs[i + 1])
          THEN <<(c - 192) * 64 + (bs[i + 1] - 128)>> \o DecodeFrom(bs, i + 2)
          ELSE <<-1>> \o DecodeFrom(bs, i + 1)
      ELSE IF c >= 224 /\ c <= 239 THEN
        IF i + 1 > Len(bs) THEN <<-1>>
        ELSE IF ~ByteIn(bs, i + 1, SecondLo(c), SecondHi(c))
          THEN <<-1>> \o DecodeFrom(bs, i + 1)
        ELSE IF i + 2 > Len(bs) THEN <<-1>>
        ELSE IF ~IsCont(bs[i + 2]) THEN <<-1>> \o DecodeFrom(bs, i + 2)
        ELSE <<(c - 224) * 4096 + (bs[i + 1] - 128) * 64 + (bs[i + 2] - 128)>>
                 \o DecodeFrom(bs, i + 3)
      ELSE IF c >= 240 /\ c <= 244 THEN
        IF i + 1 > Len(bs) THEN <<-1>>
        ELSE IF ~ByteIn(bs, i + 1, SecondLo(c), SecondHi(c))
          THEN <<-1>> \o DecodeFrom(bs, i + 1)
        ELSE IF i + 2 > Len(bs) THEN <<-1>>
        ELSE IF ~IsCont(bs[i + 2]) THEN <<-1>> \o DecodeFrom(bs, i + 2)
        ELSE IF i + 3 > Len(bs) THEN <<-1>>
        ELSE IF ~IsCont(bs[i + 3]) THEN <<-1>> \o DecodeFrom(bs, i + 3)
        ELSE <<(c - 240) * 262144 + (bs[i + 1] - 128) * 4096
                 + (bs[i + 2] - 128) * 64 + (bs[i + 3] - 128)>>
                 \o DecodeFrom(bs, i + 4)
      ELSE <<-1>> \o DecodeFrom(bs, i + 1)

\* The decoder over a whole file, taken in pieces: a byte that is no continuation
\* byte always starts a code point or an error, so the bytes can be cut before it.
RECURSIVE DecodeBytes(_)
DecodeBytes(bs) ==
    LET cuts == {i \in (Len(bs) \div 2)..Len(bs) : i > 1 /\ ~IsCont(bs[i])}
    IN  IF Len(bs) <= 8 \/ cuts = {} THEN DecodeFrom(bs, 1)
        ELSE DecodeBytes(SubSeq(bs, 1, Min(cuts) - 1))
                 \o DecodeBytes(SubSeq(bs, Min(cuts), Len(bs)))

\* errors='ignore': the undecodable bytes are dropped.
DecodeIgnore(bs) == SelectSeq(DecodeBytes(bs), LAMBDA c : c >= 0)

\* errors='strict' (the default): any undecodable byte raises UnicodeDecodeError.
DecodesStrictly(bs) == DecodeIgnore(bs) = DecodeBytes(bs)

\* newline=None on reading: '\r\n' and a lone '\r' become '\n'.
UniversalNewlines(t) ==
    Flatten([k \in 1..Len(t) |->
                IF t[k] = 13 THEN <<10>>
                ELSE IF t[k] = 10 /\ k > 1 /\ t[k - 1] = 13 THEN <<>>
                ELSE <<t[k]>>])

\* f.read() of a file opened as on line 25.
ReadIgnore(bs) == UniversalNewlines(DecodeIgnore(bs))

\* f.read() of a file opened as on line 34 (when the bytes decode).
ReadStrict(bs) == UniversalNewlines(DecodeIgnore(bs))

\* The UTF-8 encoding of one code point (no surrogates arise from decoded text).
EncodeChar(c) ==
    IF c < 128 THEN <<c>>
    ELSE IF c < 2048 THEN <<192 + (c \div 64), 128 + (c % 64)>>
    ELSE IF c < 65536
      THEN <<224 + (c \div 4096), 128 + ((c \div 64) % 64), 128 + (c % 64)>>
      ELSE <<240 + (c \div 262144), 128 + ((c \div 4096) % 64),
             128 + ((c \div 64) % 64), 128 + (c % 64)>>

Utf8Encode(t) == Flatten([k \in 1..Len(t) |-> EncodeChar(t[k])])

\* newline=None on writing: '\n' becomes os.linesep.
LineSep(os) == IF os = "nt" THEN <<13, 10>> ELSE <<10>>

WriteNewlines(t, os) ==
    Flatten([k \in 1..Len(t) |-> IF t[k] = 10 THEN LineSep(os) ELSE <<t[k]>>])

\* The bytes f.write(t) leaves in a file opened as on line 50.
WriteText(t, os) == Utf8Encode(WriteNewlines(t, os))

----------------------------------------------------------------------------
(* Path.glob('*.txt') (line 17): the entries of the directory whose name   *)
(* matches the pattern, whatever their kind; the match ignores case on nt. *)

Lower(c) == IF c >= 65 /\ c <= 90 THEN c + 32 ELSE c

NormCase(t, os) == IF os = "nt" THEN [k \in 1..Len(t) |-> Lower(t[k])] ELSE t

\* fnmatch: '*' (42) matches any run of characters, '?' (63) any one character.
RECURSIVE FnMatch(_, _)
FnMatch(pat, name) ==
    IF pat = <<>> THEN name = <<>>
    ELSE IF Head(pat) = 42
      THEN FnMatch(Tail(pat), name) \/ (name # <<>> /\ FnMatch(pat, Tail(name)))
    ELSE /\ name # <<>>
         /\ (Head(pat) = 63 \/ Head(pat) = Head(name))
         /\ FnMatch(Tail(pat), Tail(name))

Glob(dir, pat, os) == {n \in DOMAIN dir : FnMatch(NormCase(pat, os), NormCase(n, os))}

\* The sentinel compared without regard to case.
DiscoveredMutant(dir, os) ==
    {n \in Glob(dir, GlobPattern, os) : NormCase(n, "nt") # OrphanedName}

\* line 17: the comprehension's filter
Discovered(dir, os) == {n \in Glob(dir, GlobPattern, os) : n # OrphanedName}

----------------------------------------------------------------------------
(* json.dumps(message_data, ensure_ascii=False, indent=2) (line 39).       *)

HexDigit(d) == IF d < 10 THEN 48 + d ELSE 87 + d

\* A backslash written as it is.
EscapeCharMutant(c) ==
    IF c = 34 THEN <<92, 34>>
    ELSE IF c = 10 THEN <<92, 110>>
    ELSE IF c = 13 THEN <<92, 114>>
    ELSE IF c < 32 THEN <<92, 117, 48, 48, HexDigit(c \div 16), HexDigit(c % 16)>>
    ELSE <<c>>

\* json.encoder.ESCAPE_DCT: what one character of a string is written as.
EscapeChar(c) ==
    IF c = 34 THEN <<92, 34>>
    ELSE IF c = 92 THEN <<92, 92>>
    ELSE IF c = 10 THEN <<92, 110>>
    ELSE IF c = 13 THEN <<92, 114>>
    ELSE IF c = 9 THEN <<92, 116>>
    ELSE IF c = 8 THEN <<92, 98>>
    ELSE IF c = 12 THEN <<92, 102>>
    ELSE IF c < 32 THEN <<92, 117, 48, 48, HexDigit(c \div 16), HexDigit(c % 16)>>
    ELSE <<c>>

\* json.encoder.py_encode_basestring
EncodeString(t) == <<34>> \o Flatten([k \in 1..Len(t) |-> EscapeChar(t[k])]) \o <<34>>

\* One item of the object: two spaces, the key, ': ', the value.
EncodeItem(item) ==
    <<32, 32>> \o EncodeString(item.name) \o <<58, 32>> \o EncodeString(item.content)

RECURSIVE JoinItems(_)
JoinItems(items) ==
    IF Len(items) = 1 THEN EncodeItem(items[1])
    ELSE EncodeItem(items[1]) \o <<44, 10>> \o JoinItems(Tail(items))

\* No case for the empty dict.
DumpsJsonMutant(d) ==
    <<123, 10>> \o (IF d = <<>> THEN <<>> ELSE JoinItems(d)) \o <<10, 125>>

DumpsJson(d) ==
    IF d = <<>> THEN <<123, 125>>
    ELSE <<123, 10>> \o JoinItems(d) \o <<10, 125>>

----------------------------------------------------------------------------
(* The dict message_data: its items in insertion order.                    *)

Keys(d) == {d[k].name : k \in 1..Len(d)}

\* d[name] = content (line 27): a new key is appended, an old one keeps its place.
DictSet(d, name, content) ==
    IF name \in Keys(d)
      THEN [k \in 1..Len(d) |->
              IF d[k].name = name THEN [name |-> name, content |-> content] ELSE d[k]]
      ELSE Append(d, [name |-> name, content |-> content])

----------------------------------------------------------------------------
(* main(), statement by statement.                                         *)

Say(kind, name, n) == [kind |-> kind, name |-> name, n |-> n]

Opened(file, name, mode) == [file |-> file, name |-> name, mode |-> mode]

\* lines 17-22: glob, filter, report the count, start with an empty dict.
\* The order glob yields the entries in is the directory's, which is arbitrary.
Discover ==
    /\ pc = "discover"
    /\ txt_files' \in Orderings(Discovered(messages_dir, os_name))
    /\ stdout' = Append(stdout, Say("Found", <<>>, Len(txt_files')))
    /\ message_data' = <<>>
    /\ idx' = 1
    /\ pc' = IF txt_files' = <<>> THEN "read_template" ELSE "load"
    /\ UNCHANGED <<os_name, messages_dir, script_dir, viewer_html, data_json, open_log>>

\* Whether open() and read() of the entry succeed (line 25 and 26).
CanRead(entry) == entry.kind = "file" /\ entry.readable

\* The loop without its handler: the first failure ends main().
LoadMutant ==
    /\ pc = "load"
    /\ idx <= Len(txt_files)
    /\ LET txt_file == txt_files[idx]
           entry == messages_dir[txt_file]
           content == ReadIgnore(entry.bytes)
       IN  /\ open_log' = Append(open_log, Opened("messages", txt_file, "r"))
           /\ IF CanRead(entry)
                THEN /\ message_data' = DictSet(message_data, txt_file, content)
                     /\ stdout' = Append(stdout, Say("Loaded", txt_file, Len(content)))
                     /\ pc' = IF idx + 1 > Len(txt_files) THEN "read_template" ELSE "load"
                ELSE /\ message_data' = message_data
                     /\ stdout' = stdout
                     /\ pc' = "raised_load"
    /\ idx' = idx + 1
    /\ UNCHANGED <<os_name, messages_dir, script_dir, txt_files, viewer_html, data_json>>

\* lines 23-30: one iteration of the loop.
Load ==
    /\ pc = "load"
    /\ idx <= Len(txt_files)
    /\ LET txt_file == txt_files[idx]
           entry == messages_dir[txt_file]
           content == ReadIgnore(entry.bytes)
       IN  /\ open_log' = Append(open_log, Opened("messages", txt_file, "r"))
           /\ IF CanRead(entry)
                THEN /\ message_data' = DictSet(message_data, txt_file, content)
                     /\ stdout' = Append(stdout, Say("Loaded", txt_file, Len(content)))
                ELSE /\ message_data' = message_data
                     /\ stdout' = Append(stdout, Say("Error", txt_file, 0))
    /\ idx' = idx + 1
    /\ pc' = IF idx' > Len(txt_files) THEN "read_template" ELSE "load"
    /\ UNCHANGED <<os_name, messages_dir, script_dir, txt_files, viewer_html, data_json>>

\* Whether open() and read() of the template succeed (lines 34 and 35).
CanReadTemplate(file) == file.present /\ file.accessible /\ DecodesStrictly(file.bytes)

\* The template read under a handler of its own: main() goes on without a template.
ReadTemplateMutant ==
    /\ pc = "read_template"
    /\ open_log' = Append(open_log, Opened(viewer_template_path, <<>>, "r"))
    /\ viewer_html' = IF CanReadTemplate(script_dir[viewer_template_path])
                        THEN ReadStrict(script_dir[viewer_template_path].bytes)
                        ELSE <<>>
    /\ pc' = "serialize"
    /\ UNCHANGED <<os_name, messages_dir, script_dir, txt_files, idx, message_data,
                   data_json, stdout>>

\* lines 33-35: no handler encloses them, so a failure ends main().
ReadTemplate ==
    /\ pc = "read_template"
    /\ open_log' = Append(open_log, Opened(viewer_template_path, <<>>, "r"))
    /\ IF CanReadTemplate(script_dir[viewer_template_path])
         THEN /\ viewer_html' = ReadStrict(script_dir[viewer_template_path].bytes)
              /\ pc' = "serialize"
         ELSE /\ viewer_html' = viewer_html
              /\ pc' = "raised_template"
    /\ UNCHANGED <<os_name, messages_dir, script_dir, txt_files, idx, message_data,
                   data_json, stdout>>

\* line 39
Serialize ==
    /\ pc = "serialize"
    /\ data_json' = DumpsJson(message_data)
    /\ pc' = "inject"
    /\ UNCHANGED <<os_name, messages_dir, script_dir, txt_files, idx, message_data,
                   viewer_html, stdout, open_log>>

\* The assignment without its semicolon.
AssignmentMutant(json) == AssignPrefix \o json

\* f'window.IMESSAGE_DATA = {data_json};' (line 44)
Assignment(json) == AssignPrefix \o json \o <<59>>

\* replace() without its count: every occurrence is replaced.
InjectIntoMutant(html, json) == ReplaceAll(html, Marker, Assignment(json))

\* lines 42-46
InjectInto(html, json) == ReplaceFirst(html, Marker, Assignment(json))

Inject ==
    /\ pc = "inject"
    /\ viewer_html' = InjectInto(viewer_html, data_json)
    /\ pc' = "write"
    /\ UNCHANGED <<os_name, messages_dir, script_dir, txt_files, idx, message_data,
                   data_json, stdout, open_log>>

\* lines 49-51: open(output_path, 'w') truncates or creates the file; it fails, with
\* the file as it was, when the file exists and may not be written.
Write ==
    /\ pc = "write"
    /\ open_log' = Append(open_log, Opened(output_path, <<>>, "w"))
    /\ IF script_dir[output_path].present /\ ~script_dir[output_path].accessible
         THEN /\ script_dir' = script_dir
              /\ pc' = "raised_write"
         ELSE /\ script_dir' = [script_dir EXCEPT ![output_path] =
                     [present |-> TRUE, accessible |-> TRUE,
                      bytes |-> WriteText(viewer_html, os_name)]]
              /\ pc' = "report"
    /\ UNCHANGED <<os_name, messages_dir, txt_files, idx, message_data, viewer_html,
                   data_json, stdout>>

\* The summary counting the discovered files, not the loaded ones.
ReportMutant ==
    /\ pc = "report"
    /\ stdout' = stdout \o <<Say("Generated", <<>>, Len(txt_files)),
                             Say("Saved", <<>>, 0)>>
    /\ pc' = "done"
    /\ UNCHANGED <<os_name, messages_dir, script_dir, txt_files, idx, message_data,
                   viewer_html, data_json, open_log>>

\* lines 53-55
Report ==
    /\ pc = "report"
    /\ stdout' = stdout \o <<Say("Generated", <<>>, Len(message_data)),
                             Say("Saved", <<>>, 0)>>
    /\ pc' = "done"
    /\ UNCHANGED <<os_name, messages_dir, script_dir, txt_files, idx, message_data,
                   viewer_html, data_json, open_log>>

Next == Discover \/ Load \/ ReadTemplate \/ Serialize \/ Inject \/ Write \/ Report

----------------------------------------------------------------------------
(* Initial states: a file system and a platform; main() has not started.   *)

File(bytes) == [kind |-> "file", readable |-> TRUE, bytes |-> bytes]

\* A file open() or read() fails on (permissions, an I/O error).
Unreadable == [kind |-> "file", readable |-> FALSE, bytes |-> <<72, 105>>]

\* A directory whose name ends in .txt: glob yields it, open() raises.
Directory == [kind |-> "dir", readable |-> TRUE, bytes |-> <<>>]

Absent == [present |-> FALSE, accessible |-> FALSE, bytes |-> <<>>]

Present(bytes) == [present |-> TRUE, accessible |-> TRUE, bytes |-> bytes]

Locked(bytes) == [present |-> TRUE, accessible |-> FALSE, bytes |-> bytes]

\* The directories of at most max entries, named from names, each one of entries.
Dirs(names, entries, max) ==
    UNION {[S -> entries] : S \in {T \in SUBSET names : Cardinality(T) <= max}}

InitFrom(dirs, templates, outputs, platforms) ==
    /\ os_name \in platforms
    /\ messages_dir \in dirs
    /\ \E t \in templates, o \in outputs :
          script_dir = [f \in {TemplateFile, OutputFile} |->
                           IF f = TemplateFile THEN t ELSE o]
    /\ pc = "discover"
    /\ txt_files = <<>>
    /\ idx = 0
    /\ message_data = <<>>
    /\ viewer_html = <<>>
    /\ data_json = <<>>
    /\ stdout = <<>>
    /\ open_log = <<>>

\* 'a.txt', 'Orphaned.txt', 'b.TXT', 'n.md', 'q".txt'
NameA == <<97,46,116,120,116>>
NameOrphanedUpper == <<79,114,112,104,97,110,101,100,46,116,120,116>>
NameUpperExt == <<98,46,84,88,84>>
NameMarkdown == <<110,46,109,100>>
NameQuote == <<113,34,46,116,120,116>>

\* '<script>' and '</script>'
ScriptOpen == <<60,115,99,114,105,112,116,62>>
ScriptClose == <<60,47,115,99,114,105,112,116,62>>

OneMarkerTemplate == ScriptOpen \o Marker \o ScriptClose
TwoMarkerTemplate == ScriptOpen \o Marker \o <<10>> \o Marker \o ScriptClose

OldOutput == <<111, 108, 100>>

\* Every kind of entry under every kind of name, every fate of the template and
\* of the output file, both platforms.
Init ==
    InitFrom(Dirs({NameA, OrphanedName, NameOrphanedUpper, NameUpperExt, NameMarkdown},
                  {File(<<72, 105>>), File(<<195, 169, 255, 13, 10>>), Unreadable, Directory},
                  MaxFiles),
             {Absent, Locked(OneMarkerTemplate), Present(<<255>> \o OneMarkerTemplate),
              Present(OneMarkerTemplate), Present(TwoMarkerTemplate)},
             {Absent, Present(OldOutput), Locked(OldOutput)},
             {"posix", "nt"})

Spec == Init /\ [][Next]_vars

\* The bytes a drawn conversation file is made of: quote, backslash, newline,
\* carriage return, 'n', a control character, and the two bytes of e-acute
\* (each alone is undecodable).
ContentBytes == {34, 92, 10, 13, 110, 1, 195, 169}

\* One conversation file of every content up to MaxLen bytes, alone or beside a
\* second one whose name holds a quote; one unreadable file for the loop's handler.
InitContent ==
    InitFrom(LET beside == Dirs({NameQuote}, {File(<<>>), File(<<92, 195, 169>>)}, 1)
             IN  beside
                   \cup {(NameA :> Unreadable)}
                   \cup {(NameA :> File(bs)) @@ d :
                            bs \in SeqsUpTo(ContentBytes, MaxLen), d \in beside},
             {Present(OneMarkerTemplate)},
             {Absent},
             {"posix"})

SpecContent == InitContent /\ [][Next]_vars

\* The pieces a drawn template is made of: '<', the marker, the marker up to its
\* brace, '{};' (the last two make a marker when adjacent), and a newline.
TemplateChunks == {<<60>>, Marker, AssignPrefix, <<123, 125, 59>>}

\* 'x' + marker + 'y' as bytes: a conversation that quotes the marker
MarkerQuoted == <<120>> \o Marker \o <<121>>

\* 'window.IMESSAGE_DATA = {};.txt': a conversation named after the marker
NameMarker == Marker \o <<46,116,120,116>>

\* Every template of up to MaxChunks pieces, against the empty directory, the
\* sentinel alone, and conversations that do and do not hold the marker.
InitTemplate ==
    InitFrom({<<>>,
              (OrphanedName :> File(<<72, 105>>)),
              (NameA :> File(<<72, 105>>)),
              (NameA :> File(MarkerQuoted)),
              (NameMarker :> File(<<>>)),
              (NameA :> File(<<72, 105>>)) @@ (NameQuote :> Unreadable)},
             {Present(Flatten(cs)) : cs \in SeqsUpTo(TemplateChunks, MaxChunks)}
               \cup {Absent},
             {Absent, Locked(OldOutput)},
             {"posix"})

SpecTemplate == InitTemplate /\ [][Next]_vars

----------------------------------------------------------------------------
(* What the properties below are stated with.                              *)

Range(seq) == {seq[k] : k \in 1..Len(seq)}

EndsWith(t, suffix) ==
    /\ Len(t) >= Len(suffix)
    /\ SubSeq(t, Len(t) - Len(suffix) + 1, Len(t)) = suffix

\* '.txt'
DotTxt == <<46,116,120,116>>

\* An entry open() and read() succeed on: a regular file that may be read.
ReadSucceeds(n) == messages_dir[n].kind = "file" /\ messages_dir[n].readable

\* The open() calls on conversation files, on the output file.
ConversationOpens == SelectSeq(open_log, LAMBDA o : o.file = "messages")
WriteOpens == SelectSeq(open_log, LAMBDA o : o.mode = "w")
TemplateOpened == \E k \in 1..Len(open_log) : open_log[k].file = TemplateFile

\* The per-file diagnostics, the load confirmations, the error messages.
PerFileLines == SelectSeq(stdout, LAMBDA r : r.kind \in {"Loaded", "Error"})
LoadedLines == SelectSeq(stdout, LAMBDA r : r.kind = "Loaded")
ErrorLines == SelectSeq(stdout, LAMBDA r : r.kind = "Error")
FoundLines == SelectSeq(stdout, LAMBDA r : r.kind = "Found")
GeneratedLines == SelectSeq(stdout, LAMBDA r : r.kind = "Generated")

LoopDone == pc \notin {"discover", "load"}
Serialized == pc \in {"inject", "write", "report", "done", "raised_write"}
Injected == pc \in {"write", "report", "done", "raised_write"}
Written == pc \in {"report", "done"}

\* The template document as the script reads it; the file is never written.
TemplateText == ReadStrict(script_dir[TemplateFile].bytes)

SumOver(f, n) ==
    LET S[k \in 0..n] == IF k = 0 THEN 0 ELSE S[k - 1] + f[k] IN S[n]

----------------------------------------------------------------------------
(* json.loads, restricted to an object of strings: what a reader of the    *)
(* embedded data gets back.  [ok |-> FALSE] when the text is not that.     *)

HexVal(c) ==
    IF c >= 48 /\ c <= 57 THEN c - 48
    ELSE IF c >= 97 /\ c <= 102 THEN c - 87
    ELSE IF c >= 65 /\ c <= 70 THEN c - 55
    ELSE -1

Failed == [ok |-> FALSE, val |-> <<>>, next |-> 0]

SimpleEscape(e) ==
    IF e \in {34, 92, 47} THEN e
    ELSE IF e = 98 THEN 8
    ELSE IF e = 102 THEN 12
    ELSE IF e = 110 THEN 10
    ELSE IF e = 114 THEN 13
    ELSE IF e = 116 THEN 9
    ELSE -1

\* The body of a string from position i on (after the opening quote).
RECURSIVE StringBody(_, _, _)
StringBody(t, i, acc) ==
    IF i > Len(t) THEN Failed
    ELSE IF t[i] = 34 THEN [ok |-> TRUE, val |-> acc, next |-> i + 1]
    ELSE IF t[i] = 92 THEN
      IF i + 1 > Len(t) THEN Failed
      ELSE IF t[i + 1] = 117 THEN
        IF i + 5 > Len(t) \/ \E k \in 2..5 : HexVal(t[i + k]) < 0 THEN Failed
        ELSE StringBody(t, i + 6,
                 Append(acc, HexVal(t[i + 2]) * 4096 + HexVal(t[i + 3]) * 256
                               + HexVal(t[i + 4]) * 16 + HexVal(t[i + 5])))
      ELSE IF SimpleEscape(t[i + 1]) < 0 THEN Failed
      ELSE StringBody(t, i + 2, Append(acc, SimpleEscape(t[i + 1])))
    ELSE IF t[i] < 32 THEN Failed
    ELSE StringBody(t, i + 1, Append(acc, t[i]))

ParseString(t, i) ==
    IF i <= Len(t) /\ t[i] = 34 THEN StringBody(t, i + 1, <<>>) ELSE Failed

RECURSIVE SkipWs(_, _)
SkipWs(t, i) ==
    IF i <= Len(t) /\ t[i] \in {32, 9, 10, 13} THEN SkipWs(t, i + 1) ELSE i

\* The items of an object from position i on (at the first key).
RECURSIVE ParseItems(_, _, _)
ParseItems(t, i, acc) ==
    LET key == ParseString(t, i)
        colon == SkipWs(t, key.next)
        value == ParseString(t, SkipWs(t, colon + 1))
        after == SkipWs(t, value.next)
        items == DictSet(acc, key.val, value.val)
    IN  IF ~key.ok \/ colon > Len(t) \/ t[colon] # 58 THEN Failed
        ELSE IF ~value.ok \/ after > Len(t) THEN Failed
        ELSE IF t[after] = 125 THEN [ok |-> TRUE, val |-> items, next |-> after + 1]
        ELSE IF t[after] = 44 THEN ParseItems(t, SkipWs(t, after + 1), items)
        ELSE Failed

JsonLoads(t) ==
    LET open == SkipWs(t, 1)
        first == SkipWs(t, open + 1)
        object == IF first <= Len(t) /\ t[first] = 125
                    THEN [ok |-> TRUE, val |-> <<>>, next |-> first + 1]
                    ELSE ParseItems(t, first, <<>>)
    IN  IF open > Len(t) \/ t[open] # 123 THEN [ok |-> FALSE, items |-> <<>>]
        ELSE IF ~object.ok \/ SkipWs(t, object.next) <= Len(t)
          THEN [ok |-> FALSE, items |-> <<>>]
        ELSE [ok |-> TRUE, items |-> object.val]

----------------------------------------------------------------------------
(* Discovery.                                                              *)

\* C1: once the directory has been listed, 'orphaned.txt' is neither among the
\* discovered files nor a key of the dataset; every other entry whose name ends in
\* '.txt', 'Orphaned.txt' included, is discovered, once; and whatever is discovered
\* is an entry of the directory whose name ends in '.txt' (up to case on nt, where
\* the glob ignores case).
C1_DiscoverExcludesOnlyOrphaned ==
    pc # "discover" =>
      /\ OrphanedName \notin Range(txt_files)
      /\ OrphanedName \notin Keys(message_data)
      /\ \A n \in DOMAIN messages_dir :
            (EndsWith(n, DotTxt) /\ n # OrphanedName) => n \in Range(txt_files)
      /\ \A n \in Range(txt_files) :
            n \in DOMAIN messages_dir /\ EndsWith(NormCase(n, os_name), DotTxt)
      /\ Cardinality(Range(txt_files)) = Len(txt_files)
      /\ Keys(message_data) \subseteq Range(txt_files)

\* A finished run over a directory holding both 'orphaned.txt' and 'Orphaned.txt',
\* the latter loaded.
C1_Witness ==
    /\ pc = "done"
    /\ OrphanedName \in DOMAIN messages_dir
    /\ NameOrphanedUpper \in Keys(message_data)

----------------------------------------------------------------------------
(* The load loop.                                                          *)

\* C2: a read failure ends nothing.  While the loop runs, the dataset holds
\* exactly the files tried so far whose read succeeded; after it, every discovered
\* file has been tried, the dataset holds exactly those whose read succeeded, each
\* with its own content, and the run has gone on to the template; main() ends
\* early only on the template or on the output file.
C2_ReadFailuresAreSkipped ==
    /\ pc = "load" =>
         /\ idx <= Len(txt_files)
         /\ Keys(message_data) =
               {txt_files[k] : k \in {j \in 1..(idx - 1) : ReadSucceeds(txt_files[j])}}
    /\ LoopDone =>
         /\ Len(ConversationOpens) = Len(txt_files)
         /\ Keys(message_data) = {n \in Range(txt_files) : ReadSucceeds(n)}
         /\ Len(message_data) = Cardinality(Keys(message_data))
         /\ \A k \in 1..Len(message_data) :
               message_data[k].content = ReadIgnore(messages_dir[message_data[k].name].bytes)
         /\ pc = "read_template" \/ TemplateOpened
    /\ pc \in {"discover", "load", "read_template", "serialize", "inject", "write",
               "report", "done", "raised_template", "raised_write"}
    /\ pc = "raised_template" => ~CanReadTemplate(script_dir[TemplateFile])
    /\ pc = "raised_write" => ~script_dir[OutputFile].accessible
    /\ Written => WriteOpens # <<>>

\* A finished run in which a file that failed was enumerated before one that loaded.
C2_Witness ==
    /\ pc = "done"
    /\ Len(txt_files) = 2
    /\ ~ReadSucceeds(txt_files[1])
    /\ txt_files[2] \in Keys(message_data)

\* C10: every discovered file is opened once, in enumeration order, and gets one
\* diagnostic, in that order; the keys of the dataset are the names of the load
\* confirmations; the summary's count is the number of load confirmations, which
\* is the count reported at the start less the number of error messages.
C10_OneDiagnosticPerFile ==
    /\ LoopDone =>
         /\ ConversationOpens =
               [k \in 1..Len(txt_files) |-> Opened("messages", txt_files[k], "r")]
         /\ [k \in 1..Len(PerFileLines) |-> PerFileLines[k].name] = txt_files
         /\ Keys(message_data) = {LoadedLines[k].name : k \in 1..Len(LoadedLines)}
         /\ Len(message_data) = Len(LoadedLines)
         /\ Len(FoundLines) = 1
         /\ FoundLines[1].n = Len(txt_files)
    /\ pc = "done" =>
         /\ Len(GeneratedLines) = 1
         /\ GeneratedLines[1].n = Len(LoadedLines)
         /\ GeneratedLines[1].n = FoundLines[1].n - Len(ErrorLines)
    /\ pc # "done" => GeneratedLines = <<>>

\* A finished run with one load confirmation and one error message.
C10_Witness ==
    /\ pc = "done"
    /\ Len(LoadedLines) = 1
    /\ Len(ErrorLines) = 1

\* C9: the length a load confirmation reports is the byte length of the file.
C9_ReportedLengthIsByteLength ==
    \A k \in 1..Len(LoadedLines) :
        LoadedLines[k].n = Len(messages_dir[LoadedLines[k].name].bytes)

----------------------------------------------------------------------------
(* The template and the output file.                                       *)

\* C6: once the template has been tried and cannot be read, main() has ended on
\* that error, with every discovered file tried before, no summary printed and the
\* output never opened; nothing follows that state, and the output file changes
\* only in a step that opens it for writing.
C6_TemplateFailureIsFatal ==
    /\ []((TemplateOpened /\ ~CanReadTemplate(script_dir[TemplateFile])) =>
            /\ pc = "raised_template"
            /\ WriteOpens = <<>>
            /\ [k \in 1..Len(ConversationOpens) |-> ConversationOpens[k].name] = txt_files
            /\ Len(PerFileLines) = Len(txt_files)
            /\ GeneratedLines = <<>>)
    /\ [][/\ pc # "raised_template"
          /\ script_dir'[OutputFile] # script_dir[OutputFile] => WriteOpens' # WriteOpens]_vars

\* The run ended on the template, after one file loaded and one failed, beside an
\* output file of an earlier run.
C6_Witness ==
    /\ pc = "raised_template"
    /\ script_dir[OutputFile] = Present(OldOutput)
    /\ Len(LoadedLines) = 1
    /\ Len(ErrorLines) = 1

\* C8: a finished run has opened one file for writing, the output file, once, and
\* that file now holds the injected document and nothing else; no step changes an
\* entry of messages/ or the template file.
C8_OnlyTheOutputIsWritten ==
    /\ [](pc = "done" =>
            /\ WriteOpens = <<Opened(OutputFile, <<>>, "w")>>
            /\ script_dir[OutputFile].present
            /\ DecodesStrictly(script_dir[OutputFile].bytes)
            /\ ReadStrict(script_dir[OutputFile].bytes) = viewer_html)
    /\ [][/\ messages_dir' = messages_dir
          /\ script_dir'[TemplateFile] = script_dir[TemplateFile]]_vars

\* A finished run over the sentinel and a loaded conversation.
C8_Witness ==
    /\ pc = "done"
    /\ OrphanedName \in DOMAIN messages_dir
    /\ Len(message_data) = 1

----------------------------------------------------------------------------
(* Serialization and injection.                                            *)

\* The assignment the dataset is embedded as.
DataAssignment == AssignPrefix \o DumpsJson(message_data) \o <<59>>

\* How often the marker occurs in the names and contents of the dataset.
MarkersInData ==
    SumOver([k \in 1..Len(message_data) |->
                 CountOf(message_data[k].name, Marker)
                   + CountOf(message_data[k].content, Marker)],
            Len(message_data))

\* C3 as stated: a template with one marker yields a document with no marker and
\* one occurrence of the assignment.
C3_NoMarkerRemains ==
    (Injected /\ CountOf(TemplateText, Marker) = 1) =>
      /\ CountOf(viewer_html, Marker) = 0
      /\ CountOf(viewer_html, DataAssignment) = 1

\* C3, amended: a template with one marker yields the text before the marker, the
\* assignment, and the text after the marker; the assignment occurs once more than
\* in those two texts; the marker occurs as often as it does inside the assignment:
\* once for the empty dataset, whose assignment is the marker, and otherwise once
\* for each time a name or a content holds it.
C3_MarkerReplacedByAssignment ==
    (Injected /\ CountOf(TemplateText, Marker) = 1) =>
      LET at == Min(Occurrences(TemplateText, Marker))
          before == SubSeq(TemplateText, 1, at - 1)
          after == SubSeq(TemplateText, at + Len(Marker), Len(TemplateText))
      IN  /\ viewer_html = before \o DataAssignment \o after
          /\ CountOf(viewer_html, DataAssignment)
                = 1 + CountOf(before, DataAssignment) + CountOf(after, DataAssignment)
          /\ CountOf(viewer_html, Marker) = CountOf(DataAssignment, Marker)
          /\ CountOf(DataAssignment, Marker)
                = IF message_data = <<>> THEN 1 ELSE MarkersInData

\* A document without a marker: one marker in the template, a dataset that is not
\* empty and does not hold the marker.
C3_Witness ==
    /\ pc = "done"
    /\ CountOf(TemplateText, Marker) = 1
    /\ message_data # <<>>
    /\ CountOf(viewer_html, Marker) = 0
    /\ CountOf(viewer_html, DataAssignment) = 1

\* C4: a template without a marker is injected unchanged, and main() does not end
\* on it; in a template with k >= 1 markers the text before the leftmost one and
\* the text after it are as they were, the k - 1 later markers included, with the
\* assignment between them.
C4_OnlyTheFirstMarkerIsReplaced ==
    Injected =>
      LET found == Occurrences(TemplateText, Marker)
          at == Min(found)
          rest == Len(TemplateText) - (at + Len(Marker)) + 1
      IN  /\ found = {} => viewer_html = TemplateText
          /\ found # {} =>
               /\ Len(viewer_html) = (at - 1) + Len(DataAssignment) + rest
               /\ SubSeq(viewer_html, 1, at - 1) = SubSeq(TemplateText, 1, at - 1)
               /\ OccursAt(viewer_html, DataAssignment, at)
               /\ SubSeq(viewer_html, Len(viewer_html) - rest + 1, Len(viewer_html))
                     = SubSeq(TemplateText, at + Len(Marker), Len(TemplateText))
               /\ CountOf(SubSeq(viewer_html, Len(viewer_html) - rest + 1, Len(viewer_html)),
                          Marker) = Cardinality(found) - 1
          /\ pc = "raised_write" => ~script_dir[OutputFile].accessible

\* A finished run over a template with two or more markers and a dataset that is
\* not empty: the later markers are still there.
C4_Witness ==
    /\ pc = "done"
    /\ CountOf(TemplateText, Marker) >= 2
    /\ message_data # <<>>
    /\ CountOf(viewer_html, Marker) = CountOf(TemplateText, Marker) - 1

\* A directory without a qualifying file: the sentinel and names not ending in .txt.
NoQualifyingFile ==
    \A n \in DOMAIN messages_dir :
        n = OrphanedName \/ ~EndsWith(NormCase(n, os_name), DotTxt)

\* C7: over a directory without a qualifying file nothing is loaded and nothing
\* fails to load; the dataset is empty and serializes to '{}'; injecting replaces
\* the first marker by the assignment of '{}', which is the marker, so the document
\* is the template; and main() ends early only on the template or on the output.
C7_EmptyDirectoryGivesEmptyObject ==
    NoQualifyingFile =>
      /\ pc # "load"
      /\ message_data = <<>>
      /\ PerFileLines = <<>>
      /\ Serialized => data_json = <<123, 125>>
      /\ Injected =>
           /\ viewer_html = TemplateText
           /\ Occurrences(TemplateText, Marker) # {} =>
                 OccursAt(viewer_html, AssignPrefix \o <<123, 125>> \o <<59>>,
                          Min(Occurrences(TemplateText, Marker)))
      /\ Written => ReadStrict(script_dir[OutputFile].bytes) = TemplateText
      /\ pc = "raised_template" => ~CanReadTemplate(script_dir[TemplateFile])
      /\ pc = "raised_write" => ~script_dir[OutputFile].accessible

\* A finished run over a directory holding the sentinel alone, the template having
\* a marker.
C7_Witness ==
    /\ pc = "done"
    /\ DOMAIN messages_dir = {OrphanedName}
    /\ CountOf(TemplateText, Marker) >= 1
    /\ GeneratedLines[1].n = 0

\* How often code point c occurs in the names and contents of the dataset.
TimesInData(c) ==
    SumOver([k \in 1..Len(message_data) |->
                 CountOf(message_data[k].name, <<c>>)
                   + CountOf(message_data[k].content, <<c>>)],
            Len(message_data))

NonAscii(t) == {t[k] : k \in {j \in 1..Len(t) : t[j] >= 128}}

\* C5: parsing the serialized dataset gives the dataset back, item for item, and
\* every non-ASCII character of the dataset stands in the serialized text as
\* itself, as often as in the dataset, and nowhere else.
C5_SerializeRoundTrips ==
    Serialized =>
      /\ JsonLoads(data_json) = [ok |-> TRUE, items |-> message_data]
      /\ \A c \in NonAscii(data_json) : CountOf(data_json, <<c>>) = TimesInData(c)
      /\ \A k \in 1..Len(message_data) :
            NonAscii(message_data[k].content) \subseteq NonAscii(data_json)

\* A finished run whose dataset holds a quote, a backslash and a non-ASCII
\* character, under a name that holds a quote.
C5_Witness ==
    /\ pc = "done"
    /\ \E k \in 1..Len(message_data) :
          /\ message_data[k].name = NameQuote
          /\ message_data[k].content = <<92, 233>>
    /\ \E k \in 1..Len(message_data) :
          /\ 34 \in Range(message_data[k].content)
          /\ 233 \in Range(message_data[k].content)

====
